---- MODULE Spec2Model ----
(***************************************************************************)
(* Model of the action orchestration engine of BatteryDurabilityTest       *)
(* (src/common.py): Test.carry, Batch.execute and TimerLoop.execute with   *)
(* its per-child worker thread.                                            *)
(*                                                                         *)
(* One Test is carried once.  Its action list is                           *)
(*     a, B = Batch[b1, b2, b3], L = TimerLoop[step1, step2], c            *)
(* Leaf actions end in one of three ways: "ok" (execute returns),          *)
(* "failed" (an exception other than FailSafeException) or "aborted"       *)
(* (pyautogui.FailSafeException).  The clock `now` is read by TimerLoop    *)
(* only, so it is advanced only while the controller is blocked inside it. *)
(*                                                                         *)
(* Further specifications of the module:                                   *)
(*   SpecLive    TimerLoop.execute alone, without the record of events,    *)
(*               with the fairness of the thread scheduler                 *)
(*   SpecGate    WaitUntilCPUFree.execute, strict and not strict, over one *)
(*               sequence of load samples                                  *)
(*   SpecDriver  the main program of src/__main__.py and its recorder      *)
(*   SpecRepeat  Test.carry called again after it returned True            *)
(*   SpecOffice  StandardTest: ExcelPrepare, PPTPrepare and their loops    *)
(***************************************************************************)
EXTENDS Integers, Sequences, FiniteSets, TLC

\* ---------------------------------------------------------------- bounds
MaxTime == 3
MaxStarts == 3
MaxTimeout == 2

\* ------------------------------------------------------- the test's data
\* The class object every `action is not AutomaticallyPausedAction` test
\* compares an instance against.
AutomaticallyPausedAction == "AutomaticallyPausedAction"

\* Test.actions, in list order.
Actions == <<"a", "B", "L", "c">>
\* Batch.actions of B.
BatchActions == <<"b1", "b2", "b3">>
\* Loop.actions of L.
LoopActions == <<"step1", "step2">>

KindOf(a) == IF a = "B" THEN "batch" ELSE IF a = "L" THEN "timerloop" ELSE "step"

\* How a leaf's execute can end.
Outcomes == {"ok", "failed", "aborted"}

Timeouts == {0 - 1, 0, MaxTimeout}
ExemptionSets == SUBSET {"step1", "step2"}

VARIABLES
    pc,                   \* position of the controlling thread
    idx,                  \* carry's for loop: the index in Actions of `action`
    current_action,       \* Test.current_action: "None" or an action of Actions
    result,               \* what carry returned: "none" (running), "true", "false"
    logged,               \* number of logging.warning calls of carry
    bidx,                 \* index of Batch.execute's for loop
    timeout,              \* TimerLoop.timeout
    should_not_stop_when, \* TimerLoop.should_not_stop_when
    cancelled,            \* TimerLoop.cancelled
    time_start,           \* TimerLoop.execute's local time_start
    cidx,                 \* index of TimerLoop.execute's for loop
    rem,                  \* take's parameter timeout (the remaining time)
    wstate,               \* the worker thread t: "none", "running", "finished"
    wname,                \* the action the worker executes
    joinStart,            \* the time at which t.join(timeout) was called
    alive,                \* what t.is_alive() answered in the current take
    takeRet,              \* what take returned
    now,                  \* time.time()
    starts,               \* number of worker threads started
    trace,                \* what was executed, in order: <<by, action, event>>
    feed,                 \* what psutil.cpu_percent() returns, call by call
    gate,                 \* the locals of WaitUntilCPUFree.execute, per strict
    dpc,                  \* position of the main thread of __main__
    runs,                 \* the carry() calls of __main__ that returned
    ref_current,          \* TestRef.current
    ref_cancelled,        \* TestRef.cancelled
    rpc,                  \* position of the recorder thread
    records,              \* number of lines battery_recorder wrote in its loop
    office                \* StandardTest with its ExcelPrepare and PPTPrepare

vars == <<pc, idx, result, logged, bidx, timeout, should_not_stop_when, cancelled,
          time_start, cidx, rem, wstate, wname, joinStart, alive, takeRet, now,
          starts, trace, feed, gate, dpc, runs, ref_current, ref_cancelled, rpc,
          records, current_action, office>>

carryVars == <<idx, result, logged>>
batchVars == <<bidx>>
confVars == <<timeout, should_not_stop_when>>
loopVars == <<cancelled, time_start, cidx, rem, joinStart, alive, takeRet>>
workerVars == <<wstate, wname, starts>>
gateVars == <<feed, gate>>
driverVars == <<dpc, runs, ref_current, ref_cancelled, rpc, records>>
officeVars == <<office>>

\* No WaitUntilCPUFree is executing.
GateIdle ==
    /\ feed = <<>>
    /\ gate = <<>>

\* __main__ is not running.
DriverIdle ==
    /\ dpc = "none"
    /\ runs = <<>>
    /\ ref_current = "none"
    /\ ref_cancelled = FALSE
    /\ rpc = "none"
    /\ records = 0

\* No StandardTest is constructed.
OfficeIdle == office = <<>>

Init ==
    /\ pc = "carry_next"
    /\ idx = 0
    /\ current_action = "None"
    /\ result = "none"
    /\ logged = 0
    /\ bidx = 0
    /\ timeout \in Timeouts
    /\ should_not_stop_when \in ExemptionSets
    /\ cancelled = FALSE
    /\ time_start = 0
    /\ cidx = 0
    /\ rem = 0
    /\ wstate = "none"
    /\ wname = "none"
    /\ joinStart = 0
    /\ alive = FALSE
    /\ takeRet = TRUE
    /\ now = 0
    /\ starts = 0
    /\ trace = <<>>
    /\ GateIdle
    /\ DriverIdle
    /\ OfficeIdle

\* The actions whose class derives from AutomaticallyPausedAction:
\* class Loop(AutomaticallyPausedAction), class TimerLoop(Loop),
\* class Batch(AutomaticallyPausedAction).
IsAutomaticallyPaused(a) == KindOf(a) \in {"batch", "timerloop"}

\* `x is not AutomaticallyPausedAction`: identity of an instance and the class.
NeedsPause(a) == a # AutomaticallyPausedAction

CarryNextNoPointer ==
    /\ pc = "carry_next"
    /\ IF idx < Len(Actions)
       THEN /\ idx' = idx + 1
            /\ pc' = "carry_pause"
            /\ UNCHANGED result
       ELSE /\ pc' = "done"
            /\ result' = "true"
            /\ UNCHANGED idx
    /\ UNCHANGED <<current_action, officeVars, logged, batchVars, confVars, gateVars,
                   driverVars, loopVars, workerVars, now, trace>>

\* ------------------------------------------------------------ Test.carry
\* for action in self.actions: ...; return True
CarryNext ==
    /\ pc = "carry_next"
    /\ IF idx < Len(Actions)
       THEN /\ idx' = idx + 1
            /\ current_action' = Actions[idx + 1]
            /\ pc' = "carry_pause"
            /\ UNCHANGED result
       ELSE /\ pc' = "done"
            /\ result' = "true"
            /\ UNCHANGED <<idx, current_action>>
    /\ UNCHANGED <<officeVars, logged, batchVars, confVars, gateVars, driverVars, loopVars, workerVars, now, trace>>

\* if action is not AutomaticallyPausedAction: Pause(pyautogui.PAUSE).execute()
CarryPause ==
    /\ pc = "carry_pause"
    /\ trace' = IF NeedsPause(Actions[idx])
                THEN Append(trace, <<"test", Actions[idx], "pause">>)
                ELSE trace
    /\ pc' = "carry_exec"
    /\ UNCHANGED <<current_action, officeVars, carryVars, batchVars, confVars, gateVars, driverVars, loopVars, workerVars, now>>

CarryExceptFatalLogged(o) ==
    IF o = "ok"
    THEN pc' = "carry_next" /\ UNCHANGED <<result, logged>>
    ELSE pc' = "carry_next" /\ logged' = logged + 1 /\ UNCHANGED result

CarryExceptFailureReturns(o) ==
    IF o = "ok"
    THEN pc' = "carry_next" /\ UNCHANGED <<result, logged>>
    ELSE pc' = "done" /\ result' = "false" /\ UNCHANGED logged

\* The try statement of carry around an action whose execute ended with o.
CarryExcept(o) ==
    \/ /\ o = "ok"
       /\ pc' = "carry_next"
       /\ UNCHANGED <<result, logged>>
    \/ /\ o = "aborted"
       /\ pc' = "done"
       /\ result' = "false"
       /\ UNCHANGED logged
    \/ /\ o = "failed"
       /\ pc' = "carry_next"
       /\ logged' = logged + 1
       /\ UNCHANGED result

\* action.execute() of a leaf action
CarryExecStep ==
    /\ pc = "carry_exec"
    /\ KindOf(Actions[idx]) = "step"
    /\ \E o \in Outcomes :
          /\ trace' = trace \o <<<<"test", Actions[idx], "start">>,
                                 <<"test", Actions[idx], o>>>>
          /\ CarryExcept(o)
    /\ UNCHANGED <<current_action, officeVars, idx, batchVars, confVars, gateVars, driverVars, loopVars, workerVars, now>>

\* action.execute() of the Batch: enters Batch.execute
CarryExecBatch ==
    /\ pc = "carry_exec"
    /\ KindOf(Actions[idx]) = "batch"
    /\ trace' = Append(trace, <<"test", Actions[idx], "start">>)
    /\ bidx' = 0
    /\ pc' = "batch_next"
    /\ UNCHANGED <<current_action, officeVars, carryVars, confVars, gateVars, driverVars, loopVars, workerVars, now>>

\* ---------------------------------------------------------- Batch.execute
BatchNext ==
    /\ pc = "batch_next"
    /\ IF bidx < Len(BatchActions)
       THEN /\ bidx' = bidx + 1
            /\ pc' = "batch_pause"
            /\ UNCHANGED <<carryVars, trace>>
       ELSE /\ trace' = Append(trace, <<"test", Actions[idx], "ok">>)
            /\ CarryExcept("ok")
            /\ UNCHANGED <<idx, bidx>>
    /\ UNCHANGED <<current_action, officeVars, confVars, gateVars, driverVars, loopVars, workerVars, now>>

BatchPause ==
    /\ pc = "batch_pause"
    /\ trace' = IF NeedsPause(BatchActions[bidx])
                THEN Append(trace, <<"batch", BatchActions[bidx], "pause">>)
                ELSE trace
    /\ pc' = "batch_exec"
    /\ UNCHANGED <<current_action, officeVars, carryVars, batchVars, confVars, gateVars, driverVars, loopVars, workerVars, now>>

\* action.execute() inside Batch.execute: no try statement, so what the
\* child raises leaves Batch.execute and reaches carry's try statement.
BatchExec ==
    /\ pc = "batch_exec"
    /\ \E o \in Outcomes :
          \/ /\ o = "ok"
             /\ trace' = trace \o <<<<"batch", BatchActions[bidx], "start">>,
                                    <<"batch", BatchActions[bidx], o>>>>
             /\ pc' = "batch_next"
             /\ UNCHANGED carryVars
          \/ /\ o # "ok"
             /\ trace' = trace \o <<<<"batch", BatchActions[bidx], "start">>,
                                    <<"batch", BatchActions[bidx], o>>,
                                    <<"test", Actions[idx], o>>>>
             /\ CarryExcept(o)
             /\ UNCHANGED idx
    /\ UNCHANGED <<current_action, officeVars, batchVars, confVars, gateVars, driverVars, loopVars, workerVars, now>>

\* ------------------------------------------------------ TimerLoop.execute
TimeoutNotPositiveStrict(t) == t < 0

\* if self.timeout <= 0: return
TimeoutNotPositive(t) == t <= 0

\* action.execute() of the TimerLoop: enters TimerLoop.execute
CarryExecLoop ==
    /\ pc = "carry_exec"
    /\ KindOf(Actions[idx]) = "timerloop"
    /\ IF TimeoutNotPositive(timeout)
       THEN /\ trace' = trace \o <<<<"test", Actions[idx], "start">>,
                                   <<"test", Actions[idx], "ok">>>>
            /\ CarryExcept("ok")
            /\ UNCHANGED <<time_start, cidx>>
       ELSE /\ trace' = Append(trace, <<"test", Actions[idx], "start">>)
            /\ time_start' = now
            /\ cidx' = 1
            /\ pc' = "take_call"
            /\ UNCHANGED <<result, logged>>
    /\ UNCHANGED <<current_action, officeVars, idx, batchVars, confVars, gateVars, driverVars, cancelled, rem, joinStart, alive,
                   takeRet, workerVars, now>>

\* take(action, self.timeout - time.time() + time_start): the argument is
\* evaluated at the call.
TakeCall ==
    /\ pc = "take_call"
    /\ rem' = timeout - now + time_start
    /\ pc' = "take_sleep"
    /\ UNCHANGED <<current_action, officeVars, carryVars, batchVars, confVars, gateVars, driverVars, cancelled, time_start, cidx,
                   joinStart, alive, takeRet, workerVars, now, trace>>

\* if a is not AutomaticallyPausedAction: time.sleep(pyautogui.PAUSE)
TakeSleep ==
    /\ pc = "take_sleep"
    /\ trace' = IF NeedsPause(LoopActions[cidx])
                THEN Append(trace, <<"loop", LoopActions[cidx], "pause">>)
                ELSE trace
    /\ pc' = "take_spawn"
    /\ UNCHANGED <<current_action, officeVars, carryVars, batchVars, confVars, gateVars, driverVars, loopVars, workerVars, now>>

\* t = threading.Thread(target=execute); t.start(); t.join(timeout) is called
TakeSpawn ==
    /\ pc = "take_spawn"
    /\ starts < MaxStarts
    /\ wstate' = "running"
    /\ wname' = LoopActions[cidx]
    /\ starts' = starts + 1
    /\ joinStart' = now
    /\ trace' = Append(trace, <<"loop", LoopActions[cidx], "start">>)
    /\ pc' = "take_join"
    /\ UNCHANGED <<current_action, officeVars, carryVars, batchVars, confVars, gateVars, driverVars, cancelled, time_start, cidx,
                   rem, alive, takeRet, now>>

\* Thread.join treats a negative timeout as 0.
JoinTimeout(t) == IF t < 0 THEN 0 ELSE t

TakeJoinNoWait ==
    /\ pc = "take_join"
    /\ pc' = "take_check"
    /\ UNCHANGED <<current_action, officeVars, carryVars, batchVars, confVars, gateVars, driverVars, loopVars, workerVars, now, trace>>

\* t.join(timeout) returns: the thread ended or the timeout ran out
TakeJoin ==
    /\ pc = "take_join"
    /\ \/ wstate = "finished"
       \/ now - joinStart >= JoinTimeout(rem)
    /\ pc' = "take_check"
    /\ UNCHANGED <<current_action, officeVars, carryVars, batchVars, confVars, gateVars, driverVars, loopVars, workerVars, now, trace>>

\* if self.cancelled: raise pyautogui.FailSafeException()
\* The exception leaves take and TimerLoop.execute and reaches carry.
TakeCheck ==
    /\ pc = "take_check"
    /\ IF cancelled
       THEN /\ trace' = Append(trace, <<"test", Actions[idx], "aborted">>)
            /\ CarryExcept("aborted")
       ELSE /\ pc' = "take_alive"
            /\ UNCHANGED <<result, logged, trace>>
    /\ UNCHANGED <<current_action, officeVars, idx, batchVars, confVars, gateVars, driverVars, loopVars, workerVars, now>>

TakeAliveNoJoin ==
    /\ pc = "take_alive"
    /\ alive' = (wstate # "finished")
    /\ takeRet' = TRUE
    /\ pc' = "take_ret"
    /\ UNCHANGED <<current_action, officeVars, carryVars, batchVars, confVars, gateVars, driverVars, cancelled, time_start, cidx,
                   rem, joinStart, workerVars, now, trace>>

\* if t.is_alive(): t.join() ... ; return True
TakeAlive ==
    /\ pc = "take_alive"
    /\ alive' = (wstate # "finished")
    /\ IF wstate # "finished"
       THEN /\ pc' = "take_join2"
            /\ UNCHANGED takeRet
       ELSE /\ takeRet' = TRUE
            /\ pc' = "take_ret"
    /\ UNCHANGED <<current_action, officeVars, carryVars, batchVars, confVars, gateVars, driverVars, cancelled, time_start, cidx,
                   rem, joinStart, workerVars, now, trace>>

StopsLoopAlways(a) == TRUE

\* a.name not in self.should_not_stop_when
StopsLoop(a) == a \notin should_not_stop_when

TakeJoin2NoWait ==
    /\ pc = "take_join2"
    /\ takeRet' = ~StopsLoop(wname)
    /\ pc' = "take_ret"
    /\ UNCHANGED <<current_action, officeVars, carryVars, batchVars, confVars, gateVars, driverVars, cancelled, time_start, cidx,
                   rem, joinStart, alive, workerVars, now, trace>>

\* t.join() returns; if a.name not in self.should_not_stop_when: return False
\* else return True
TakeJoin2 ==
    /\ pc = "take_join2"
    /\ wstate = "finished"
    /\ takeRet' = ~StopsLoop(wname)
    /\ pc' = "take_ret"
    /\ UNCHANGED <<current_action, officeVars, carryVars, batchVars, confVars, gateVars, driverVars, cancelled, time_start, cidx,
                   rem, joinStart, alive, workerVars, now, trace>>

\* while True: for action in self.actions: if not take(...): return
LoopStep ==
    /\ pc = "take_ret"
    /\ IF takeRet
       THEN /\ cidx' = (cidx % Len(LoopActions)) + 1
            /\ pc' = "take_call"
            /\ UNCHANGED <<result, logged, trace>>
       ELSE /\ trace' = Append(trace, <<"test", Actions[idx], "ok">>)
            /\ CarryExcept("ok")
            /\ UNCHANGED cidx
    /\ UNCHANGED <<current_action, officeVars, idx, batchVars, confVars, gateVars, driverVars, cancelled, time_start, rem,
                   joinStart, alive, takeRet, workerVars, now>>

\* ------------------------------------------- the worker thread (execute)
WorkerFinishFailureCancels ==
    /\ wstate = "running"
    /\ \E o \in {"ok", "failed"} :
          /\ trace' = Append(trace, <<"loop", wname, o>>)
          /\ cancelled' = (cancelled \/ o = "failed")
    /\ wstate' = "finished"
    /\ UNCHANGED <<current_action, officeVars, pc, carryVars, batchVars, confVars, gateVars, driverVars, time_start, cidx, rem,
                   joinStart, alive, takeRet, wname, starts, now>>

\* a.execute() returns, or raises an exception other than FailSafeException
\* (which ends the thread)
WorkerFinish ==
    /\ wstate = "running"
    /\ \E o \in {"ok", "failed"} :
          trace' = Append(trace, <<"loop", wname, o>>)
    /\ wstate' = "finished"
    /\ UNCHANGED <<current_action, officeVars, pc, carryVars, batchVars, confVars, gateVars, driverVars, loopVars, wname, starts, now>>

\* a.execute() raises FailSafeException; except pyautogui.FailSafeException:
\* self.cancelled = True, and the thread ends
WorkerRaise ==
    /\ wstate = "running"
    /\ trace' = Append(trace, <<"loop", wname, "aborted">>)
    /\ cancelled' = TRUE
    /\ wstate' = "finished"
    /\ UNCHANGED <<current_action, officeVars, pc, carryVars, batchVars, confVars, gateVars, driverVars, time_start, cidx, rem,
                   joinStart, alive, takeRet, wname, starts, now>>

\* ----------------------------------------------------------------- time
InTimerLoop ==
    pc \in {"take_call", "take_sleep", "take_spawn", "take_join", "take_check",
            "take_alive", "take_join2", "take_ret"}

\* time.time() advances while the controlling thread is blocked: in
\* time.sleep(pyautogui.PAUSE), and in t.join(timeout) and t.join() as long
\* as the thread has not ended.
Tick ==
    /\ \/ pc = "take_sleep"
       \/ pc \in {"take_join", "take_join2"} /\ wstate = "running"
    /\ now < MaxTime
    /\ now' = now + 1
    /\ UNCHANGED <<current_action, officeVars, pc, carryVars, batchVars, confVars, gateVars, driverVars, loopVars, workerVars, trace>>

Next ==
    \/ CarryNext
    \/ CarryPause
    \/ CarryExecStep
    \/ CarryExecBatch
    \/ BatchNext
    \/ BatchPause
    \/ BatchExec
    \/ CarryExecLoop
    \/ TakeCall
    \/ TakeSleep
    \/ TakeSpawn
    \/ TakeJoin
    \/ TakeCheck
    \/ TakeAlive
    \/ TakeJoin2
    \/ LoopStep
    \/ WorkerFinish
    \/ WorkerRaise
    \/ Tick

Spec == Init /\ [][Next]_vars

\* ---------------------------------------- TimerLoop.execute, unrecorded
\* The same TimerLoop.execute, started at its call with a positive timeout,
\* without the record of events and the count of workers, so that a loop
\* that goes on forever is a cycle of finitely many states.  TakeCall,
\* TakeJoin, TakeAlive, TakeJoin2 and Tick are the actions above.
LiveInit ==
    /\ pc = "carry_exec"
    /\ idx = 3
    /\ current_action = Actions[3]
    /\ result = "none"
    /\ logged = 0
    /\ bidx = 0
    /\ timeout \in {t \in Timeouts : t > 0}
    /\ should_not_stop_when \in ExemptionSets
    /\ cancelled = FALSE
    /\ time_start = 0
    /\ cidx = 0
    /\ rem = 0
    /\ wstate = "none"
    /\ wname = "none"
    /\ joinStart = 0
    /\ alive = FALSE
    /\ takeRet = TRUE
    /\ now = 0
    /\ starts = 0
    /\ trace = <<>>
    /\ GateIdle
    /\ DriverIdle
    /\ OfficeIdle

\* if self.timeout <= 0: return; time_start = time.time()
LiveEnter ==
    /\ pc = "carry_exec"
    /\ KindOf(Actions[idx]) = "timerloop"
    /\ ~TimeoutNotPositive(timeout)
    /\ time_start' = now
    /\ cidx' = 1
    /\ pc' = "take_call"
    /\ UNCHANGED <<current_action, officeVars, carryVars, batchVars, confVars, gateVars, driverVars, cancelled,
                   rem, joinStart, alive, takeRet, workerVars, now, trace>>

LiveTakeSleep ==
    /\ pc = "take_sleep"
    /\ pc' = "take_spawn"
    /\ UNCHANGED <<current_action, officeVars, carryVars, batchVars, confVars, gateVars, driverVars, loopVars,
                   workerVars, now, trace>>

LiveTakeSpawn ==
    /\ pc = "take_spawn"
    /\ wstate' = "running"
    /\ wname' = LoopActions[cidx]
    /\ joinStart' = now
    /\ pc' = "take_join"
    /\ UNCHANGED <<current_action, officeVars, carryVars, batchVars, confVars, gateVars, driverVars, cancelled,
                   time_start, cidx, rem, alive, takeRet, starts, now, trace>>

LiveTakeCheck ==
    /\ pc = "take_check"
    /\ IF cancelled
       THEN CarryExcept("aborted")
       ELSE pc' = "take_alive" /\ UNCHANGED <<result, logged>>
    /\ UNCHANGED <<current_action, officeVars, idx, batchVars, confVars, gateVars, driverVars, loopVars,
                   workerVars, now, trace>>

LiveLoopStep ==
    /\ pc = "take_ret"
    /\ IF takeRet
       THEN /\ cidx' = (cidx % Len(LoopActions)) + 1
            /\ pc' = "take_call"
            /\ UNCHANGED <<result, logged>>
       ELSE /\ CarryExcept("ok")
            /\ UNCHANGED cidx
    /\ UNCHANGED <<current_action, officeVars, idx, batchVars, confVars, gateVars, driverVars, cancelled,
                   time_start, rem, joinStart, alive, takeRet, workerVars, now, trace>>

\* a.execute() returns or raises an exception other than FailSafeException
LiveWorkerFinish ==
    /\ wstate = "running"
    /\ wstate' = "finished"
    /\ UNCHANGED <<current_action, officeVars, pc, carryVars, batchVars, confVars, gateVars, driverVars, loopVars,
                   wname, starts, now, trace>>

\* a.execute() raises FailSafeException: self.cancelled = True
LiveWorkerRaise ==
    /\ wstate = "running"
    /\ cancelled' = TRUE
    /\ wstate' = "finished"
    /\ UNCHANGED <<current_action, officeVars, pc, carryVars, batchVars, confVars, gateVars, driverVars, time_start,
                   cidx, rem, joinStart, alive, takeRet, wname, starts, now, trace>>

LiveNext ==
    \/ LiveEnter
    \/ TakeCall
    \/ LiveTakeSleep
    \/ LiveTakeSpawn
    \/ TakeJoin
    \/ LiveTakeCheck
    \/ TakeAlive
    \/ TakeJoin2
    \/ LiveLoopStep
    \/ LiveWorkerFinish
    \/ LiveWorkerRaise
    \/ Tick

\* The controlling thread runs when it can; every child's execute ends
\* (the worker thread is scheduled and its action terminates); time passes
\* in the sleeps and joins the loop keeps entering, until the clock of the
\* model is at MaxTime, which is after the loop's deadline.
LiveFairness ==
    /\ WF_vars(LiveEnter)
    /\ WF_vars(TakeCall)
    /\ WF_vars(LiveTakeSleep)
    /\ WF_vars(LiveTakeSpawn)
    /\ WF_vars(TakeJoin)
    /\ WF_vars(LiveTakeCheck)
    /\ WF_vars(TakeAlive)
    /\ WF_vars(TakeJoin2)
    /\ WF_vars(LiveLoopStep)
    /\ WF_vars(LiveWorkerFinish \/ LiveWorkerRaise)
    /\ SF_vars(Tick)

SpecLive == LiveInit /\ [][LiveNext]_vars /\ LiveFairness

\* ------------------------------------------- WaitUntilCPUFree.execute
\* psutil.cpu_percent() gives per cent with one decimal; hold is 0.05 or
\* 0.1.  Loads are counted in units of 0.05 per cent: Pct(81) is 8.1 %.
Pct(tenths) == 2 * tenths

\* Longest sequence of load samples chosen freely.
MaxFeed == 3

\* self.timeout = 10
GateTimeout == 10

\* hold = 0.1 if self.strict else 0.05
HoldOf(strict) == IF strict THEN 2 ELSE 1
\* drop = 13 if self.strict else 10
DropOf(strict) == IF strict THEN Pct(130) ELSE Pct(100)

\* Loads psutil.cpu_percent() may report: 5.0, 8.0, 8.1, 20.0, 90.0
Samples == {Pct(50), Pct(80), Pct(81), Pct(200), Pct(900)}
\* The load sequence 90, 90, 70, 40, 38, 37
DecliningFeed == <<Pct(900), Pct(900), Pct(700), Pct(400), Pct(380), Pct(370)>>
\* The sequences of successive results of psutil.cpu_percent(); the last
\* load of a sequence lasts.
Feeds == UNION {[1..n -> Samples] : n \in 1..MaxFeed} \cup {DecliningFeed}
\* The i-th result of psutil.cpu_percent()
Sample(i) == feed[IF i <= Len(feed) THEN i ELSE Len(feed)]

\* The engine is constructed and not carried.
EngineIdle ==
    /\ pc = "carry_next"
    /\ idx = 0
    /\ current_action = "None"
    /\ result = "none"
    /\ logged = 0
    /\ bidx = 0
    /\ timeout = MaxTimeout
    /\ should_not_stop_when = {}
    /\ cancelled = FALSE
    /\ time_start = 0
    /\ cidx = 0
    /\ rem = 0
    /\ wstate = "none"
    /\ wname = "none"
    /\ joinStart = 0
    /\ alive = FALSE
    /\ takeRet = TRUE
    /\ now = 0
    /\ starts = 0
    /\ trace = <<>>

engineVars == <<pc, carryVars, batchVars, confVars, loopVars, workerVars, now, trace>>

\* WaitUntilCPUFree(strict) for both values of strict, each before execute;
\* reads counts the calls of psutil.cpu_percent() of the execution.
GateInit ==
    /\ EngineIdle
    /\ DriverIdle
    /\ feed \in Feeds
    /\ gate = [s \in BOOLEAN |->
                 [status |-> "new", count |-> 0, last |-> 0, initial |-> 0,
                  declined |-> FALSE, reads |-> 0]]
    /\ OfficeIdle

\* count = 0; last = psutil.cpu_percent(); initial = last; declined = False
GateStart(s) ==
    /\ gate[s].status = "new"
    /\ gate' = [gate EXCEPT ![s] =
                  [status |-> "polling", count |-> 0, last |-> Sample(1),
                   initial |-> Sample(1), declined |-> FALSE, reads |-> 1]]
    /\ UNCHANGED <<current_action, officeVars, feed, engineVars, driverVars>>

\* if not declined and current < last
DeclineObserved(declined, last, current) == ~declined /\ current < last

GateFreeUndeclined(s, declined, initial, last, current) ==
    \/ initial - last >= DropOf(s)
    \/ current - last <= HoldOf(s)
    \/ current < Pct(80)

GateFreeNoFloor(s, declined, initial, last, current) ==
    declined /\ (initial - last >= DropOf(s) \/ current - last <= HoldOf(s))

\* elif (declined and (initial - last >= drop or current - last <= hold))
\*      or current < 8
GateFree(s, declined, initial, last, current) ==
    \/ declined /\ (initial - last >= DropOf(s) \/ current - last <= HoldOf(s))
    \/ current < Pct(80)

TimedOutAtTimeout(count) == count > GateTimeout

\* if count > self.timeout * 2
TimedOut(count) == count > GateTimeout * 2

\* count += 1; the TimeoutError, whose message reads the load once more,
\* or last = current
GateContinue(g, current, declined) ==
    IF TimedOut(g.count + 1)
    THEN [g EXCEPT !.status = "timeout", !.count = g.count + 1,
                   !.declined = declined, !.reads = g.reads + 2]
    ELSE [g EXCEPT !.count = g.count + 1, !.declined = declined,
                   !.last = current, !.reads = g.reads + 1]

\* One turn of `while True`: time.sleep(0.5); current = psutil.cpu_percent()
GatePoll(s) ==
    /\ gate[s].status = "polling"
    /\ LET g == gate[s]
           current == Sample(g.reads + 1)
       IN  gate' = [gate EXCEPT ![s] =
                 IF DeclineObserved(g.declined, g.last, current)
                 THEN GateContinue(g, current, TRUE)
                 ELSE IF GateFree(s, g.declined, g.initial, g.last, current)
                      THEN [g EXCEPT !.status = "free", !.reads = g.reads + 1]
                      ELSE GateContinue(g, current, g.declined)]
    /\ UNCHANGED <<current_action, officeVars, feed, engineVars, driverVars>>

GateNext ==
    \/ \E s \in BOOLEAN : GateStart(s)
    \/ \E s \in BOOLEAN : GatePoll(s)

SpecGate == GateInit /\ [][GateNext]_vars

\* ------------------------------------------------- src/__main__.py
\* Most calls of standard_test.carry() that return, and the number from
\* which the lines written by the recorder are no longer counted.
MaxRuns == 3
MaxRecords == 3

\* What one carry() gives: True, or False after FailSafeException.
CarryResults == {"true", "false"}

\* The module is loaded: ref = TestRef(initialization_test); the main
\* block is about to run.  runs lists the calls of carry(), each with its
\* result once it has returned.
DriverInit ==
    /\ EngineIdle
    /\ GateIdle
    /\ dpc = "start"
    /\ runs = <<>>
    /\ ref_current = "initialization_test"
    /\ ref_cancelled = FALSE
    /\ rpc = "none"
    /\ records = 0
    /\ OfficeIdle

\* recorder_thread.start()
DriverStartRecorder ==
    /\ dpc = "start"
    /\ rpc' = "open"
    /\ dpc' = "set_init"
    /\ UNCHANGED <<current_action, officeVars, runs, ref_current, ref_cancelled, records, engineVars, gateVars>>

\* ref.current = initialization_test
DriverSetInit ==
    /\ dpc = "set_init"
    /\ ref_current' = "initialization_test"
    /\ dpc' = "call_init"
    /\ UNCHANGED <<current_action, officeVars, runs, ref_cancelled, rpc, records, engineVars, gateVars>>

\* ref.current = standard_test
DriverSetStandard ==
    /\ dpc = "set_standard"
    /\ ref_current' = "standard_test"
    /\ dpc' = "call_standard"
    /\ UNCHANGED <<current_action, officeVars, runs, ref_cancelled, rpc, records, engineVars, gateVars>>

\* initialization_test.carry() or standard_test.carry() is called
DriverCall ==
    /\ dpc \in {"call_init", "call_standard"}
    /\ Len(runs) <= MaxRuns
    /\ runs' = Append(runs, <<ref_current, "running">>)
    /\ dpc' = IF dpc = "call_init" THEN "in_init" ELSE "in_standard"
    /\ UNCHANGED <<current_action, officeVars, ref_current, ref_cancelled, rpc, records, engineVars, gateVars>>

\* initialization_test.carry() returns; its result is not used
DriverInitReturn(r) ==
    /\ dpc = "in_init"
    /\ runs' = [runs EXCEPT ![Len(runs)] = <<runs[Len(runs)][1], r>>]
    /\ dpc' = "set_standard"
    /\ UNCHANGED <<current_action, officeVars, ref_current, ref_cancelled, rpc, records, engineVars, gateVars>>

\* go_on = standard_test.carry(); if not go_on: break
DriverStandardReturn(r) ==
    /\ dpc = "in_standard"
    /\ runs' = [runs EXCEPT ![Len(runs)] = <<runs[Len(runs)][1], r>>]
    /\ dpc' = IF r = "true" THEN "call_standard" ELSE "cancel"
    /\ UNCHANGED <<current_action, officeVars, ref_current, ref_cancelled, rpc, records, engineVars, gateVars>>

\* ref.cancelled = True
DriverCancel ==
    /\ dpc = "cancel"
    /\ ref_cancelled' = TRUE
    /\ dpc' = "end"
    /\ UNCHANGED <<current_action, officeVars, runs, ref_current, rpc, records, engineVars, gateVars>>

\* battery_recorder: the log is opened, its head written
RecorderOpen ==
    /\ rpc = "open"
    /\ rpc' = "test"
    /\ UNCHANGED <<current_action, officeVars, dpc, runs, ref_current, ref_cancelled, records, engineVars, gateVars>>

\* while not test_ref.cancelled
RecorderTest ==
    /\ rpc = "test"
    /\ rpc' = IF ref_cancelled THEN "close" ELSE "write"
    /\ UNCHANGED <<current_action, officeVars, dpc, runs, ref_current, ref_cancelled, records, engineVars, gateVars>>

\* one line of the log, then time.sleep(10)
RecorderWrite ==
    /\ rpc = "write"
    /\ records' = IF records < MaxRecords THEN records + 1 ELSE records
    /\ rpc' = "test"
    /\ UNCHANGED <<current_action, officeVars, dpc, runs, ref_current, ref_cancelled, engineVars, gateVars>>

\* log.write("[Cancelled] ..."); log.close()
RecorderClose ==
    /\ rpc = "close"
    /\ rpc' = "closed"
    /\ UNCHANGED <<current_action, officeVars, dpc, runs, ref_current, ref_cancelled, records, engineVars, gateVars>>

DriverNext ==
    \/ DriverStartRecorder
    \/ DriverSetInit
    \/ DriverCall
    \/ \E r \in CarryResults : DriverInitReturn(r)
    \/ DriverSetStandard
    \/ \E r \in CarryResults : DriverStandardReturn(r)
    \/ DriverCancel
    \/ RecorderOpen
    \/ RecorderTest
    \/ RecorderWrite
    \/ RecorderClose

SpecDriver == DriverInit /\ [][DriverNext]_vars

\* ------------------------------------------------ carry, called again
\* The Test whose TimerLoop has no positive timeout and returns at once.
RepeatInit ==
    /\ Init
    /\ TimeoutNotPositive(timeout)

\* while True: go_on = standard_test.carry(); if not go_on: break
\* carry returned True and is called again on the same Test.  The record
\* of events and the count of warnings are those of the carry in progress.
CarryAgain ==
    /\ pc = "done"
    /\ result = "true"
    /\ pc' = "carry_next"
    /\ idx' = 0
    /\ result' = "none"
    /\ logged' = 0
    /\ trace' = <<>>
    /\ UNCHANGED <<current_action, officeVars, batchVars, confVars, gateVars, driverVars,
                   loopVars, workerVars, now>>

RepeatNext ==
    \/ CarryNext
    \/ CarryPause
    \/ CarryExecStep
    \/ CarryExecBatch
    \/ BatchNext
    \/ BatchPause
    \/ BatchExec
    \/ CarryExecLoop
    \/ CarryAgain

SpecRepeat == RepeatInit /\ [][RepeatNext]_vars

\* ------------------------------------- StandardTest's Office contexts
\* Most carries of one StandardTest, and the row from which
\* bump_row_counter is no longer followed.
MaxCarries == 3
MaxRow == 5

\* if self.context.current_slide >= 65
SlideClicks == 65

\* The actions of StandardTest that write or read ExcelPrepare.current_row
\* and PPTPrepare.current_slide, in list order: excel_context, the
\* TimerLoop excel_calculate, ppt_context, the TimerLoop ppt_slideshow.
OfficeActions == <<"excel_prepare", "excel_calculate", "powerpoint_prepare", "ppt_slideshow">>

ContextOf(a) == IF a \in {"excel_prepare", "excel_calculate"} THEN "excel" ELSE "ppt"
IsPrepare(a) == a \in {"excel_prepare", "powerpoint_prepare"}

\* The children of the two TimerLoops.
OfficeLoopActions(a) ==
    IF a = "excel_calculate"
    THEN <<"excel_calc", "hit_enter", "bump_row_counter">>
    ELSE <<"ppt_next", "bump_slide_counter">>

\* MSPrepare.basic_actions of ExcelPrepare and of PPTPrepare
BasicActions(ctx) ==
    IF ctx = "excel"
    THEN <<"launch_excel", "wait_for_free", "pause", "ms_select_first_doc",
           "wait_for_free", "pause", "ms_goto">>
    ELSE <<"launch_ppt", "wait_for_free", "pause", "ms_select_first_doc",
           "wait_for_free", "pause", "ppt_play">>

\* return self.basic_actions[:1]
Launcher(ctx) == SubSeq(BasicActions(ctx), 1, 1)
\* return self.basic_actions[-1:]
Shortcut(ctx) == SubSeq(BasicActions(ctx), Len(BasicActions(ctx)), Len(BasicActions(ctx)))

\* ExcelPrepare.opened: self.current_row > 0; MSPrepare.opened: False
Opened(ctx) == IF ctx = "excel" THEN office.current_row > 0 ELSE FALSE

\* StandardTest() is constructed: current_row = 0, current_slide = 0.
\* completed tells whether an ExcelPrepare.execute has run to its end,
\* wrote which thread has assigned which counter.
OfficeInit ==
    /\ EngineIdle
    /\ GateIdle
    /\ DriverIdle
    /\ \E w \in BOOLEAN :
         office = [pc |-> "carry_next", idx |-> 0, cidx |-> 0, carries |-> 1,
                   result |-> "none", current_row |-> 0, current_slide |-> 0,
                   actions |-> [ctx \in {"excel", "ppt"} |-> BasicActions(ctx)],
                   completed |-> FALSE, wrote |-> {}, IS_WINDOWS |-> w]

\* for action in self.actions of Test.carry; return True
OfficeCarryNext ==
    /\ office.pc = "carry_next"
    /\ office' =
         IF office.idx < Len(OfficeActions)
         THEN [office EXCEPT !.idx = office.idx + 1, !.cidx = 1,
                 !.pc = IF IsPrepare(OfficeActions[office.idx + 1])
                        THEN "prepare_select" ELSE "loop"]
         ELSE [office EXCEPT !.pc = "done", !.result = "true"]
    /\ UNCHANGED <<current_action, engineVars, gateVars, driverVars>>

\* MSPrepare.execute up to super().execute(): the choice of self.actions.
\* On Windows the list is the shortcut alone, whether or not a window of
\* the application is found: `self.actions = actions` comes last.
PrepareSelect ==
    /\ office.pc = "prepare_select"
    /\ LET ctx == ContextOf(OfficeActions[office.idx])
       IN  office' = [office EXCEPT !.pc = "prepare_execute",
                 !.actions[ctx] =
                     IF ~Opened(ctx)
                     THEN BasicActions(ctx)
                     ELSE (IF office.IS_WINDOWS THEN <<>> ELSE Launcher(ctx))
                              \o Shortcut(ctx)]
    /\ UNCHANGED <<current_action, engineVars, gateVars, driverVars>>

\* super().execute() of ExcelPrepare.execute and PPTPrepare.execute,
\* Batch.execute over self.actions, ending with o; after its return
\* self.current_row = 3 or self.current_slide = 1.  An exception leaves
\* execute before the assignment; carry logs it and goes on, or returns
\* False on FailSafeException.
PrepareExecute(o) ==
    /\ office.pc = "prepare_execute"
    /\ LET ctx == ContextOf(OfficeActions[office.idx])
       IN  office' =
             IF o = "ok"
             THEN IF ctx = "excel"
                  THEN [office EXCEPT !.pc = "carry_next", !.current_row = 3,
                          !.completed = TRUE,
                          !.wrote = @ \cup {<<"current_row", "controller">>}]
                  ELSE [office EXCEPT !.pc = "carry_next", !.current_slide = 1,
                          !.wrote = @ \cup {<<"current_slide", "controller">>}]
             ELSE IF o = "failed"
                  THEN [office EXCEPT !.pc = "carry_next"]
                  ELSE [office EXCEPT !.pc = "done", !.result = "false"]
    /\ UNCHANGED <<current_action, engineVars, gateVars, driverVars>>

\* take of TimerLoop.execute: the worker thread t executes one child of
\* the loop and the controlling thread joins it.  plus and bump add one to
\* the counter; PPTNext.execute sets current_slide back to 1 at 65.
OfficeLoopChild ==
    /\ office.pc = "loop"
    /\ LET children == OfficeLoopActions(OfficeActions[office.idx])
           a == children[office.cidx]
           after == [office EXCEPT !.cidx = (office.cidx % Len(children)) + 1]
       IN  /\ a = "bump_row_counter" => office.current_row < MaxRow
           /\ office' =
                IF a = "bump_row_counter"
                THEN [after EXCEPT !.current_row = @ + 1,
                        !.wrote = @ \cup {<<"current_row", "worker">>}]
                ELSE IF a = "bump_slide_counter"
                THEN [after EXCEPT !.current_slide = @ + 1,
                        !.wrote = @ \cup {<<"current_slide", "worker">>}]
                ELSE IF a = "ppt_next" /\ office.current_slide >= SlideClicks
                THEN [after EXCEPT !.current_slide = 1,
                        !.wrote = @ \cup {<<"current_slide", "worker">>}]
                ELSE after
    /\ UNCHANGED <<current_action, engineVars, gateVars, driverVars>>

\* take returns False after the deadline: TimerLoop.execute returns
OfficeLoopExit ==
    /\ office.pc = "loop"
    /\ office' = [office EXCEPT !.pc = "carry_next"]
    /\ UNCHANGED <<current_action, engineVars, gateVars, driverVars>>

\* take raises FailSafeException: carry returns False
OfficeLoopAbort ==
    /\ office.pc = "loop"
    /\ office' = [office EXCEPT !.pc = "done", !.result = "false"]
    /\ UNCHANGED <<current_action, engineVars, gateVars, driverVars>>

\* while True: go_on = standard_test.carry(); if not go_on: break
OfficeCarryAgain ==
    /\ office.pc = "done"
    /\ office.result = "true"
    /\ office.carries < MaxCarries
    /\ office' = [office EXCEPT !.pc = "carry_next", !.idx = 0, !.result = "none",
                    !.carries = @ + 1]
    /\ UNCHANGED <<current_action, engineVars, gateVars, driverVars>>

OfficeNext ==
    \/ OfficeCarryNext
    \/ PrepareSelect
    \/ \E o \in Outcomes : PrepareExecute(o)
    \/ OfficeLoopChild
    \/ OfficeLoopExit
    \/ OfficeLoopAbort
    \/ OfficeCarryAgain

SpecOffice == OfficeInit /\ [][OfficeNext]_vars

\* ------------------------------------------------------ reading the trace
Ends == {"ok", "failed", "aborted"}

\* The events of one container ("test", "batch" or "loop"), pauses left out.
EventsBy(by) == SelectSeq(trace, LAMBDA ev : ev[1] = by /\ ev[3] # "pause")

\* The events of the test's own list, pauses included.
TestEvents == SelectSeq(trace, LAMBDA ev : ev[1] = "test")

\* The names of the actions one container started, in the order of starting.
StartedBy(by) ==
    LET st == SelectSeq(trace, LAMBDA ev : ev[1] = by /\ ev[3] = "start")
    IN  [k \in 1..Len(st) |-> st[k][2]]

IndexOf(a) == CHOOSE i \in 1..Len(Actions) : Actions[i] = a

Occurs(ev) == \E k \in 1..Len(trace) : trace[k] = ev

\* ------------------------------------------------------------------- C1
\* C1: carry returns False exactly when an action of its list raised
\* FailSafeException on the controlling thread (a leaf, or the exception
\* leaving a nested Batch): that action is the last one started and nothing
\* of the list runs after it.  carry returns True only when every action of
\* the list was started and none of them raised FailSafeException.
ClaimC1 ==
    /\ (result # "none") = (pc = "done")
    /\ (\E k \in 1..Len(TestEvents) : TestEvents[k][3] = "aborted")
          = (result = "false")
    /\ result = "false" =>
          /\ idx >= 1
          /\ TestEvents[Len(TestEvents)] = <<"test", Actions[idx], "aborted">>
          /\ StartedBy("test") = SubSeq(Actions, 1, idx)
    /\ result = "true" => StartedBy("test") = Actions

\* A FailSafeException of b2 left the Batch and ended the carry.
WitnessC1 ==
    /\ result = "false"
    /\ Occurs(<<"batch", "b2", "aborted">>)
    /\ Occurs(<<"test", "B", "aborted">>)

\* ------------------------------------------------------------------- C2
\* C2: an exception other than FailSafeException of an action of the test's
\* list is logged once, the next action of the list is the next thing the
\* test does, every later action is started before carry returns True, and
\* carry does not return because of it.
ClaimC2 ==
    /\ logged = Cardinality({k \in 1..Len(TestEvents) : TestEvents[k][3] = "failed"})
    /\ \A k \in 1..Len(TestEvents) :
          TestEvents[k][3] = "failed" =>
             LET i == IndexOf(TestEvents[k][2])
             IN  /\ k < Len(TestEvents) =>
                       /\ i < Len(Actions)
                       /\ TestEvents[k + 1] = <<"test", Actions[i + 1], "pause">>
                 /\ (k = Len(TestEvents) /\ result # "none") =>
                       (i = Len(Actions) /\ result = "true")
                 /\ result = "true" =>
                       \A j \in (i + 1)..Len(Actions) :
                          \E m \in (k + 1)..Len(TestEvents) :
                             TestEvents[m] = <<"test", Actions[j], "start">>
                 /\ result = "false" =>
                       \E m \in (k + 1)..Len(TestEvents) :
                          TestEvents[m][3] = "aborted"

\* a failed, the rest of the list was carried out and carry returned True.
WitnessC2 ==
    /\ result = "true"
    /\ Occurs(<<"test", "a", "failed">>)
    /\ Occurs(<<"test", "c", "start">>)
    /\ logged >= 1

\* ------------------------------------------------------------------- C3
\* C3: when a child of the Batch raises an exception other than
\* FailSafeException, the Batch goes on with its next child (or, after its
\* last child, returns normally): its execute does not end with that
\* exception.
ClaimC3 ==
    /\ ~Occurs(<<"test", "B", "failed">>)
    /\ \A k \in 1..Len(trace) :
          (trace[k][1] = "batch" /\ trace[k][3] = "failed" /\ k < Len(trace)) =>
             \/ \E j \in 1..(Len(BatchActions) - 1) :
                   /\ trace[k][2] = BatchActions[j]
                   /\ trace[k + 1] = <<"batch", BatchActions[j + 1], "pause">>
             \/ /\ trace[k][2] = BatchActions[Len(BatchActions)]
                /\ trace[k + 1] = <<"test", "B", "ok">>

\* ------------------------------------------------------------------- C4
\* C4: after a worker of the TimerLoop raised FailSafeException the
\* TimerLoop does not return normally, and the carry does not return True.
ClaimC4 ==
    \A k \in 1..Len(trace) :
       (trace[k][1] = "loop" /\ trace[k][3] = "aborted") =>
          /\ \A m \in (k + 1)..Len(trace) : trace[m] # <<"test", "L", "ok">>
          /\ result # "true"

\* ------------------------------------------------------------------- C5
\* C5: once an action raised FailSafeException (on the controlling thread or
\* on a worker), nothing is started any more.
ClaimC5 ==
    \A k \in 1..Len(trace) :
       trace[k][3] = "aborted" =>
          \A m \in (k + 1)..Len(trace) : trace[m][3] # "start"

\* ------------------------------------------------------------------- C6
AfterSpawn == pc \in {"take_join", "take_check", "take_alive", "take_join2", "take_ret"}

\* C6: the TimerLoop starts a worker only in a take whose remaining time is
\* positive: no child, and so no repetition, is started once the timeout
\* has elapsed since the loop was entered.
ClaimC6 == AfterSpawn => rem > 0

\* What C6 says of a repetition after the first: it begins (its first child
\* is started) only with remaining time left.
NoLateRepetition ==
    (AfterSpawn /\ cidx = 1 /\ starts > Len(LoopActions)) => rem > 0

\* ------------------------------------------------------------------- C7
\* C7: with timeout <= 0 the TimerLoop does nothing: it starts no worker,
\* takes no pause, executes no child, leaves cancelled as it was and returns
\* at once.
ClaimC7 ==
    timeout <= 0 =>
       /\ wstate = "none"
       /\ starts = 0
       /\ cancelled = FALSE
       /\ ~InTimerLoop
       /\ \A k \in 1..Len(trace) :
             /\ trace[k][1] # "loop"
             /\ trace[k] = <<"test", "L", "start">> =>
                   (k < Len(trace) /\ trace[k + 1] = <<"test", "L", "ok">>)

\* The TimerLoop was executed with timeout 0 and the test went on to c.
WitnessC7 ==
    /\ timeout = 0
    /\ Occurs(<<"test", "L", "ok">>)
    /\ Occurs(<<"test", "c", "start">>)

\* ------------------------------------------------------------------- C8
\* C8: when the bounded wait for an exempt child has ended and no
\* FailSafeException is pending (cancelled is not set: that path is the
\* subject of C4), the controller asks whether the thread is alive; an
\* exempt child found alive is joined without timeout: the controller leaves
\* that wait only when the worker has ended, and take then returns True (the
\* step completed), never False (expiry).
ClaimC8 ==
    /\ [][(pc = "take_check" /\ ~cancelled) => pc' \in {"take_check", "take_alive"}]_vars
    /\ [][(pc = "take_alive" /\ wstate # "finished" /\ wname \in should_not_stop_when)
             => pc' \in {"take_alive", "take_join2"}]_vars
    /\ [][(pc = "take_join2" /\ wname \in should_not_stop_when)
             => \/ pc' = "take_join2"
                \/ wstate = "finished" /\ pc' = "take_ret" /\ takeRet']_vars
    /\ []((pc = "take_ret" /\ alive /\ wname \in should_not_stop_when)
             => (takeRet /\ wstate = "finished"))

\* An exempt step overran its positive remaining time, was waited for, and
\* take returned.
WitnessC8 ==
    /\ pc = "take_ret"
    /\ alive
    /\ wname \in should_not_stop_when
    /\ rem > 0
    /\ now - joinStart >= rem
    /\ takeRet

\* ------------------------------------------------------------------- C9
\* C9: the controller waits without timeout only for an exempt child: for a
\* child that is not exempt its wait ends with the remaining time.
ClaimC9 == pc = "take_join2" => wname \in should_not_stop_when

\* ------------------------------------------------------------------ C10
\* C10: in the test, the Batch and the TimerLoop, actions are started in
\* list order (the TimerLoop going round its list), an action is started
\* only after the one started before it in the same list has ended (the
\* events of one list alternate: start of x, end of x), and a Batch pass
\* whose children all succeed is exactly b1, b2, b3.
ClaimC10 ==
    /\ \E n \in 0..Len(Actions) : StartedBy("test") = SubSeq(Actions, 1, n)
    /\ \E n \in 0..Len(BatchActions) : StartedBy("batch") = SubSeq(BatchActions, 1, n)
    /\ \A k \in 1..Len(StartedBy("loop")) :
          StartedBy("loop")[k] = LoopActions[((k - 1) % Len(LoopActions)) + 1]
    /\ \A by \in {"test", "batch", "loop"} :
          LET evs == EventsBy(by)
          IN  \A k \in 1..Len(evs) :
                 IF k % 2 = 1
                 THEN evs[k][3] = "start"
                 ELSE evs[k][3] \in Ends /\ evs[k][2] = evs[k - 1][2]
    /\ Occurs(<<"test", "B", "ok">>) =>
          EventsBy("batch") = <<<<"batch", "b1", "start">>, <<"batch", "b1", "ok">>,
                                <<"batch", "b2", "start">>, <<"batch", "b2", "ok">>,
                                <<"batch", "b3", "start">>, <<"batch", "b3", "ok">>>>

\* The Batch passed, the TimerLoop went round its list more than once and
\* the carry ended.
WitnessC10 ==
    /\ Occurs(<<"test", "B", "ok">>)
    /\ Len(StartedBy("loop")) > Len(LoopActions)
    /\ result = "true"

\* ------------------------------------------------------------------ C16
\* C16: TimerLoop.execute, entered with timeout > 0, returns normally only
\* when the timeout has elapsed since its entry and after a child was found
\* alive when its bounded wait had run out; it is left earlier only by the
\* FailSafeException that ends the carry with False.
ClaimC16 ==
    /\ [][(InTimerLoop /\ pc' = "carry_next") =>
             /\ now - time_start >= timeout
             /\ alive
             /\ ~takeRet
             /\ now - joinStart >= JoinTimeout(rem)]_vars
    /\ [][(InTimerLoop /\ ~InTimerLoop' /\ now - time_start < timeout) =>
             (pc' = "done" /\ result' = "false")]_vars

\* The TimerLoop, entered with a positive timeout, has returned normally.
WitnessC16 ==
    /\ timeout > 0
    /\ Occurs(<<"test", "L", "ok">>)
    /\ now - time_start >= timeout

\* ------------------------------------------------------------------ C17
\* C17: at most one worker of the TimerLoop is running: a worker is started
\* only when the one before it has ended, and none is running once
\* TimerLoop.execute has returned normally.
ClaimC17 ==
    LET evs == EventsBy("loop")
        nstart == Cardinality({k \in 1..Len(evs) : evs[k][3] = "start"})
        nend == Cardinality({k \in 1..Len(evs) : evs[k][3] \in Ends})
    IN  /\ nstart - nend = (IF wstate = "running" THEN 1 ELSE 0)
        /\ pc = "take_spawn" => wstate # "running"
        /\ Occurs(<<"test", "L", "ok">>) => wstate # "running"

\* Three workers were started one after the other and the loop returned.
WitnessC17 ==
    /\ starts >= 3
    /\ Occurs(<<"test", "L", "ok">>)

\* ------------------------------------------------------------------ C18
\* C18: an exception other than FailSafeException on a worker changes
\* nothing but the thread's end, exactly as a normal return of the child
\* does: the controller is where it was, cancelled is as it was; cancelled
\* is set, and the TimerLoop raises FailSafeException, only after a worker
\* raised FailSafeException.
ClaimC18 ==
    /\ [][(wstate = "running" /\ trace' = Append(trace, <<"loop", wname, "failed">>)) =>
             /\ wstate' = "finished"
             /\ UNCHANGED <<pc, carryVars, batchVars, confVars, loopVars, wname,
                            starts, now>>]_vars
    /\ [](cancelled =>
             \E k \in 1..Len(trace) : trace[k][1] = "loop" /\ trace[k][3] = "aborted")
    /\ [](Occurs(<<"test", "L", "aborted">>) =>
             \E k \in 1..Len(trace) : trace[k][1] = "loop" /\ trace[k][3] = "aborted")

\* step1 failed on its worker and the loop went on with step2.
WitnessC18 ==
    /\ Occurs(<<"loop", "step1", "failed">>)
    /\ Occurs(<<"loop", "step2", "start">>)
    /\ ~cancelled
    /\ InTimerLoop

\* ------------------------------------------------------------------ C20
\* C20: a pause is taken before every action that is not an instance of
\* AutomaticallyPausedAction and before no action that is one (the Batch
\* and the TimerLoop of the test's list).
ClaimC20 ==
    /\ \A k \in 1..Len(trace) :
          trace[k][3] = "pause" => ~IsAutomaticallyPaused(trace[k][2])
    /\ \A k \in 1..Len(trace) :
          (trace[k][3] = "start" /\ ~IsAutomaticallyPaused(trace[k][2])) =>
             (k > 1 /\ trace[k - 1] = <<trace[k][1], trace[k][2], "pause">>)

\* ------------------------------------------------------------------ C15
\* C15: a TimerLoop with a positive timeout whose children all end is
\* eventually left, by returning or by raising FailSafeException.
ClaimC15 == <>(pc \in {"carry_next", "done"})

\* ------------------------------------------------------------------ C11
\* The turns of `while True` the gate has gone through.
Polls(s) == IF gate[s].status = "free" THEN gate[s].count + 1 ELSE gate[s].count

\* A decline, a load below the load before it, was read on a poll before p.
DeclinedBefore(p) == \E q \in 1..(p - 1) : Sample(q + 1) < Sample(q)

\* On poll p the load has dropped by `drop` from the initial one to the
\* last one, or has risen by no more than `hold` from the last one.
Stabilized(s, p) ==
    \/ Sample(1) - Sample(p) >= DropOf(s)
    \/ Sample(p + 1) - Sample(p) <= HoldOf(s)

\* C11: the gate returns at the first poll that follows a decline and at
\* which the load is stabilized; at a poll with no decline before it, it
\* returns only on a load below 8 %; it reads no load after the one it
\* returns on.  Not strict, on 90, 90, 70, 40, 38, 37 it returns on the
\* third poll, at 40.
ClaimC11 ==
    /\ \A s \in BOOLEAN :
         LET g == gate[s]
             n == Polls(s)
         IN  /\ g.status = "free" =>
                  /\ \/ DeclinedBefore(n) /\ Stabilized(s, n)
                     \/ Sample(n + 1) < Pct(80)
                  /\ g.reads = n + 1
             /\ \A p \in 1..g.count : ~(DeclinedBefore(p) /\ Stabilized(s, p))
    /\ feed = DecliningFeed =>
         /\ gate[FALSE].count <= 2
         /\ gate[FALSE].status # "timeout"
         /\ gate[FALSE].status = "free" =>
              /\ Polls(FALSE) = 3
              /\ Sample(gate[FALSE].reads) = Pct(400)
              /\ gate[FALSE].reads = 4

WitnessC11 ==
    /\ feed = DecliningFeed
    /\ gate[FALSE].status = "free"
    /\ gate[FALSE].declined
    /\ gate[FALSE].reads = 4

\* ------------------------------------------------------------------ C12
\* No load of the sequence is below the one before it or below 8 %.
NeverDeclining ==
    /\ \A i \in 1..Len(feed) : Sample(i) >= Pct(80)
    /\ \A i \in 1..(Len(feed) - 1) : Sample(i + 1) >= Sample(i)

\* C12: the gate ends, by returning or by TimeoutError: a poll is never
\* blocked and either returns or counts one up, and the count never passes
\* 21.  The TimeoutError is raised exactly when 21 polls have not returned.
\* On a load that never declines and stays at 8 % or above the gate never
\* returns and ends by TimeoutError.
ClaimC12 ==
    /\ [](\A s \in BOOLEAN :
            /\ gate[s].count <= GateTimeout * 2 + 1
            /\ gate[s].status = "timeout" <=> gate[s].count = GateTimeout * 2 + 1
            /\ gate[s].status = "timeout" => Polls(s) = GateTimeout * 2 + 1
            /\ gate[s].status = "free" => Polls(s) <= GateTimeout * 2 + 1
            /\ gate[s].status = "polling" => ENABLED GatePoll(s)
            /\ NeverDeclining => gate[s].status # "free")
    /\ [][\A s \in BOOLEAN :
            (gate[s].status = "polling" /\ gate'[s] # gate[s]) =>
               \/ gate'[s].status = "free"
               \/ gate'[s].count = gate[s].count + 1]_vars
    /\ [][\A s \in BOOLEAN :
            (NeverDeclining /\ gate[s].status = "polling"
               /\ gate[s].count = GateTimeout * 2 /\ gate'[s] # gate[s]) =>
               gate'[s].status = "timeout"]_vars

WitnessC12 ==
    /\ feed = <<Pct(900)>>
    /\ gate[FALSE].status = "timeout"
    /\ gate[FALSE].count = GateTimeout * 2 + 1
    /\ gate[TRUE].status = "timeout"

\* ------------------------------------------------------------------ C13
\* C13: on one sequence of loads, when the strict gate has returned, the
\* gate that is not strict returns on the same poll or an earlier one: it
\* is never found having read more loads than the strict gate read.
ClaimC13 ==
    ~(/\ gate[TRUE].status = "free"
      /\ gate[FALSE].reads > gate[TRUE].reads)

\* ------------------------------------------------------------------ C19
\* Poll p is the first one to read a load below the load before it.
FirstDecline(p) ==
    /\ Sample(p + 1) < Sample(p)
    /\ ~DeclinedBefore(p)

\* C19 as stated: every poll that reads a load below 8 % returns on that
\* very poll, so a gate that went on, or raised TimeoutError, after its
\* latest poll did not read a load below 8 % on it.
ClaimC19 ==
    \A s \in BOOLEAN :
        (gate[s].status \in {"polling", "timeout"} /\ gate[s].count >= 1) =>
            Sample(gate[s].count + 1) >= Pct(80)

\* C19, amended: every poll that reads a load below 8 % returns on that
\* very poll, except the poll on which the first decline is read: that poll
\* only notes the decline and never returns, whatever the load.
ClaimC19Amended ==
    \A s \in BOOLEAN :
        /\ \A p \in 1..gate[s].count :
              Sample(p + 1) < Pct(80) => FirstDecline(p)
        /\ gate[s].status = "free" => ~FirstDecline(Polls(s))

\* A load below 8 % on the poll of the first decline, the gate still
\* polling, and a gate that returned on a load below 8 %.
WitnessC19 ==
    /\ gate[TRUE].status = "polling"
    /\ gate[TRUE].count >= 1
    /\ Sample(gate[TRUE].count + 1) < Pct(80)
    /\ FirstDecline(gate[TRUE].count)
    /\ gate[FALSE].status = "free"
    /\ Sample(gate[FALSE].reads) < Pct(80)

\* ------------------------------------------------------------------ C14
\* C14: once a carry() of the main program has returned False no carry()
\* is called any more, of initialization_test or of standard_test; the
\* recorder's cancelled flag is set when the main block ends and the
\* recorder leaves its loop only when it is set.
ClaimC14 ==
    /\ \A i \in 1..(Len(runs) - 1) : runs[i][2] # "false"
    /\ dpc = "end" => ref_cancelled
    /\ rpc \in {"close", "closed"} => ref_cancelled

\* ------------------------------------------------------------------ C22
\* C22 as stated: during carry, current_action is None before the first
\* action of the list is reached and is the action reached otherwise, also
\* once carry has returned.
ClaimC22 ==
    /\ idx = 0 => current_action = "None"
    /\ idx > 0 => current_action = Actions[idx]
    /\ result # "none" => current_action = Actions[idx]

\* C22, amended: current_action is None until the first action of the
\* first carry is reached; in a later carry of the same Test it still is
\* the last action of the list, where the carry before ended, until the
\* first action is reached.  Otherwise it is the action most recently
\* reached: it changes only when the for loop moves one action forward, to
\* that action, before anything of the action is recorded (the pause comes
\* next), and once carry has returned it is the last action attempted.
ClaimC22Amended ==
    /\ [](/\ idx = 0 => current_action \in {"None", Actions[Len(Actions)]}
          /\ idx > 0 => current_action = Actions[idx]
          /\ result # "none" => (idx > 0 /\ current_action = Actions[idx])
          /\ \A k \in 1..Len(TestEvents) :
                /\ current_action # "None"
                /\ IndexOf(TestEvents[k][2]) <= IndexOf(current_action)
          /\ (current_action = "None") => trace = <<>>)
    /\ [][current_action' # current_action =>
            /\ idx' = idx + 1
            /\ current_action' = Actions[idx']
            /\ pc' = "carry_pause"
            /\ UNCHANGED trace]_vars
    /\ [][idx' > idx => current_action' = Actions[idx']]_vars

\* A second carry of the Test has returned after the first one returned
\* True; a carry has started again with the pointer still at the last action.
WitnessC22 ==
    /\ idx = 0
    /\ pc = "carry_next"
    /\ current_action = Actions[Len(Actions)]

\* ------------------------------------------------------------------ C21
\* C21: current_row and current_slide are assigned by the controlling
\* thread only, never by a worker thread of a TimerLoop.
ClaimC21 == \A w \in office.wrote : w[2] = "controller"

\* ------------------------------------------------------------------ C23
\* C23: ExcelPrepare executes its basic_actions until one execution of it
\* has run to its end: a shorter list is executed only after that.
ClaimC23 ==
    (office.pc = "prepare_execute" /\ OfficeActions[office.idx] = "excel_prepare") =>
        (office.actions["excel"] # BasicActions("excel") => office.completed)

====
